---------------------------- MODULE Spec2Model ----------------------------
(***************************************************************************)
(* Cosmic Daily Digest (src/app.py): one Streamlit render pass of main(),  *)
(* the fetch of the webhook payload, its structural check, and the field   *)
(* formatters format_time / format_date.                                   *)
(*                                                                         *)
(* Python values are tagged records:                                       *)
(*   [t |-> "null"]                    None / JSON null                    *)
(*   [t |-> "num", v |-> n]            int                                 *)
(*   [t |-> "float", i |-> n, f |-> d] float n.d (one decimal digit)       *)
(*   [t |-> "str", v |-> <<chars>>]    str, a sequence of 1-char strings   *)
(*   [t |-> "list", v |-> <<values>>]  list                                *)
(*   [t |-> "obj", v |-> [key -> val]] dict; an absent key is not in the   *)
(*                                     domain                              *)
(* The degree sign of "°C" is written as the single character "deg".       *)
(***************************************************************************)
EXTENDS Integers, Sequences, FiniteSets, TLC

VARIABLES
    pc,           \* position of the script in the render pass
    WEBHOOK_URL,  \* app.py:8, read from the environment when the script runs
    checkbox,     \* state of the "Show Raw Webhook Data" checkbox (app.py:121)
    response,     \* what requests.get met in this pass
    data,         \* local `data` of main()
    ui,           \* the elements the pass has put on the page, in order
    requests,     \* number of GET requests issued in this pass
    prev,         \* the previous completed pass: its inputs and its page
    iso_time,     \* argument of a formatter call (formatter specification)
    formatted,    \* the formatter that ran and what it returned or raised
    json_error_is_request_exception
                  \* whether the installed requests raises its own
                  \* JSONDecodeError, a RequestException (2.27 and later)

vars == <<pc, WEBHOOK_URL, checkbox, response, data, ui, requests, prev,
          iso_time, formatted, json_error_is_request_exception>>

----------------------------------------------------------------------------
(* Bounds of the model.                                                    *)

\* JSON integers of the payload range over -1 .. MaxNum.
MaxNum == 2

----------------------------------------------------------------------------
(* Python values.                                                          *)

None == [t |-> "null"]
JNum(n) == [t |-> "num", v |-> n]
JFloat(n, d) == [t |-> "float", i |-> n, f |-> d]
JStr(s) == [t |-> "str", v |-> s]
JList(l) == [t |-> "list", v |-> l]
JObj(fields) == [t |-> "obj", v |-> fields]

S_NA == <<"N", "/", "A">>
S_TimeNA == <<"T", "i", "m", "e", " ", "N", "/", "A">>
S_DateNA == <<"D", "a", "t", "e", " ", "N", "/", "A">>
S_Dashes == <<"-", "-">>
S_DegC == <<"deg", "C">>
S_KmH == <<" ", "k", "m", "/", "h">>
S_image == <<"i", "m", "a", "g", "e">>
S_video == <<"v", "i", "d", "e", "o">>
S_gif == <<"g", "i", "f">>
S_apod == <<"a", "p", "o", "d">>
S_weather == <<"w", "e", "a", "t", "h", "e", "r">>
S_TitleMissing == <<"T", "i", "t", "l", "e", " ", "M", "i", "s", "s", "i", "n", "g">>
S_NoExplanation == <<"N", "o", " ", "e", "x", "p", "l", "a", "n", "a", "t", "i", "o", "n", " ", "a", "v", "a", "i", "l", "a", "b", "l", "e", ".">>
S_Nebula == <<"N", "e", "b", "u", "l", "a">>
S_Dust == <<"D", "u", "s", "t">>
S_MediaUrl == <<"h", "t", "t", "p", ":", "/", "/", "a", "/", "b">>
S_Junk == <<"n", "o", "t", " ", "a", " ", "d", "a", "t", "e">>
S_ApodWeather == <<"a", "p", "o", "d", " ", "w", "e", "a", "t", "h", "e", "r">>
S_Stamp == <<"2", "0", "2", "4", "-", "0", "3", "-", "0", "5", "T", "0", "8", ":", "1", "5", ":", "0", "0", "Z">>

DigitChars == {"0", "1", "2", "3", "4", "5", "6", "7", "8", "9"}

DigitVal(c) ==
    CASE c = "0" -> 0 [] c = "1" -> 1 [] c = "2" -> 2 [] c = "3" -> 3
      [] c = "4" -> 4 [] c = "5" -> 5 [] c = "6" -> 6 [] c = "7" -> 7
      [] c = "8" -> 8 [] c = "9" -> 9

DigitChar(n) ==
    CASE n = 0 -> "0" [] n = 1 -> "1" [] n = 2 -> "2" [] n = 3 -> "3"
      [] n = 4 -> "4" [] n = 5 -> "5" [] n = 6 -> "6" [] n = 7 -> "7"
      [] n = 8 -> "8" [] n = 9 -> "9"

RECURSIVE NatToChars(_)
NatToChars(n) ==
    IF n < 10 THEN <<DigitChar(n)>>
    ELSE NatToChars(n \div 10) \o <<DigitChar(n % 10)>>

\* str(n) of an int
IntToChars(n) == IF n < 0 THEN <<"-">> \o NatToChars(-n) ELSE NatToChars(n)

\* bool(v): None, 0, 0.0 and the empty str, list and dict are falsy
Truthy(v) ==
    CASE v.t = "null" -> FALSE
      [] v.t = "num" -> v.v # 0
      [] v.t = "float" -> v.i # 0 \/ v.f # 0
      [] v.t = "str" -> v.v # <<>>
      [] v.t = "list" -> v.v # <<>>
      [] v.t = "obj" -> DOMAIN v.v # {}

\* What a call returned, or the exception it raised.
Ret(val) == [exc |-> "", val |-> val]
Raise(e) == [exc |-> e, val |-> None]

----------------------------------------------------------------------------
(* datetime.fromisoformat and strftime, as format_time and format_date use *)
(* them.  The grammar is the one every CPython from 3.7 on accepts:        *)
(*   YYYY-MM-DD[*HH[:MM[:SS[.fff[fff]]]][(+|-)HH:MM[:SS]]]                 *)
(* where * is any single character.  Later versions accept more (basic     *)
(* format, week dates, other fractions); the inputs of this model are      *)
(* strings on which the versions agree.                                    *)

AllDigits(s, a, b) == \A k \in a..b : s[k] \in DigitChars

RECURSIVE ToNat(_)
ToNat(s) == IF s = <<>> THEN 0
            ELSE 10 * ToNat(SubSeq(s, 1, Len(s) - 1)) + DigitVal(s[Len(s)])

IsLeap(y) == (y % 4 = 0 /\ y % 100 # 0) \/ y % 400 = 0

DaysInMonth(y, m) ==
    IF m = 2 THEN (IF IsLeap(y) THEN 29 ELSE 28)
    ELSE IF m \in {4, 6, 9, 11} THEN 30 ELSE 31

\* HH[:MM[:SS[.fff[fff]]]] with every field made of digits
TimeShape(s) ==
    /\ Len(s) \in {2, 5, 8, 12, 15}
    /\ AllDigits(s, 1, 2)
    /\ Len(s) >= 5 => (s[3] = ":" /\ AllDigits(s, 4, 5))
    /\ Len(s) >= 8 => (s[6] = ":" /\ AllDigits(s, 7, 8))
    /\ Len(s) >= 12 => (s[9] = "." /\ AllDigits(s, 10, Len(s)))

Field(s, k) == IF Len(s) >= k + 1 THEN ToNat(SubSeq(s, k, k + 1)) ELSE 0

\* index of the first "+" or "-" of s, or 0
SignPos(s) ==
    LET at == {k \in 1..Len(s) : s[k] \in {"+", "-"}}
    IN  IF at = {} THEN 0 ELSE CHOOSE k \in at : \A j \in at : k <= j

NoDate == [ok |-> FALSE, year |-> 0, month |-> 0, day |-> 0,
           hour |-> 0, minute |-> 0]

fromisoformat(s) ==
    IF ~ ( /\ Len(s) >= 10
           /\ AllDigits(s, 1, 4) /\ s[5] = "-"
           /\ AllDigits(s, 6, 7) /\ s[8] = "-"
           /\ AllDigits(s, 9, 10) )
    THEN NoDate
    ELSE
    LET y == ToNat(SubSeq(s, 1, 4))
        m == ToNat(SubSeq(s, 6, 7))
        d == ToNat(SubSeq(s, 9, 10))
        rest == SubSeq(s, 12, Len(s))
        sp == SignPos(rest)
        tstr == IF sp = 0 THEN rest ELSE SubSeq(rest, 1, sp - 1)
        zstr == IF sp = 0 THEN <<>> ELSE SubSeq(rest, sp + 1, Len(rest))
        dateOk == y >= 1 /\ m \in 1..12 /\ d \in 1..DaysInMonth(y, m)
        timeOk == /\ TimeShape(tstr)
                  /\ Field(tstr, 1) <= 23
                  /\ Field(tstr, 4) <= 59
                  /\ Field(tstr, 7) <= 59
        zoneOk == \/ sp = 0
                  \/ /\ Len(zstr) \in {5, 8}
                     /\ TimeShape(zstr)
                     /\ Field(zstr, 1) * 3600 + Field(zstr, 4) * 60
                          + Field(zstr, 7) < 86400
    IN  IF ~dateOk THEN NoDate
        ELSE IF Len(s) = 10
             THEN [ok |-> TRUE, year |-> y, month |-> m, day |-> d,
                   hour |-> 0, minute |-> 0]
        ELSE IF timeOk /\ zoneOk
             THEN [ok |-> TRUE, year |-> y, month |-> m, day |-> d,
                   hour |-> Field(tstr, 1), minute |-> Field(tstr, 4)]
        ELSE NoDate

\* iso_time.replace('Z', '+00:00'): every "Z" of the string is replaced
RECURSIVE ReplaceZ(_)
ReplaceZ(s) ==
    IF s = <<>> THEN <<>>
    ELSE (IF Head(s) = "Z" THEN <<"+", "0", "0", ":", "0", "0">>
          ELSE <<Head(s)>>) \o ReplaceZ(Tail(s))

Pad2(n) == <<DigitChar(n \div 10), DigitChar(n % 10)>>

MonthName(m) ==
    CASE m = 1 -> <<"J", "a", "n", "u", "a", "r", "y">>
      [] m = 2 -> <<"F", "e", "b", "r", "u", "a", "r", "y">>
      [] m = 3 -> <<"M", "a", "r", "c", "h">>
      [] m = 4 -> <<"A", "p", "r", "i", "l">>
      [] m = 5 -> <<"M", "a", "y">>
      [] m = 6 -> <<"J", "u", "n", "e">>
      [] m = 7 -> <<"J", "u", "l", "y">>
      [] m = 8 -> <<"A", "u", "g", "u", "s", "t">>
      [] m = 9 -> <<"S", "e", "p", "t", "e", "m", "b", "e", "r">>
      [] m = 10 -> <<"O", "c", "t", "o", "b", "e", "r">>
      [] m = 11 -> <<"N", "o", "v", "e", "m", "b", "e", "r">>
      [] m = 12 -> <<"D", "e", "c", "e", "m", "b", "e", "r">>

\* strftime("%I:%M %p")
ClockString(dt) ==
    Pad2(IF dt.hour % 12 = 0 THEN 12 ELSE dt.hour % 12) \o <<":">>
      \o Pad2(dt.minute) \o <<" ">>
      \o (IF dt.hour < 12 THEN <<"A", "M">> ELSE <<"P", "M">>)

\* strftime("%B %d, %Y")
LongDateString(dt) ==
    MonthName(dt.month) \o <<" ">> \o Pad2(dt.day) \o <<",", " ">>
      \o NatToChars(dt.year)

\* the string the formatters hand to fromisoformat (lines 74 and 84)
IsoArgumentKeepZ(s) == s
IsoArgument(s) == ReplaceZ(s)

\* app.py:69-77.  A truthy value that is no str has no .replace: the
\* AttributeError is not a ValueError and leaves the function.
format_time(v) ==
    IF ~Truthy(v) THEN Ret(JStr(S_NA))
    ELSE IF v.t # "str" THEN Raise("AttributeError")
    ELSE LET dt == fromisoformat(IsoArgument(v.v))
         IN  IF dt.ok THEN Ret(JStr(ClockString(dt)))
             ELSE Ret(JStr(S_TimeNA))

\* app.py:79-87
format_date(v) ==
    IF ~Truthy(v) THEN Ret(JStr(S_NA))
    ELSE IF v.t # "str" THEN Raise("AttributeError")
    ELSE LET dt == fromisoformat(IsoArgument(v.v))
         IN  IF dt.ok THEN Ret(JStr(LongDateString(dt)))
             ELSE Ret(JStr(S_DateNA))

----------------------------------------------------------------------------
(* The timestamps the formatters are applied to: every date part alone,    *)
(* and every date part followed by a separator, a time part and a zone     *)
(* part; besides None, the empty string and strings that are no timestamp. *)

DateParts ==
    { <<"2", "0", "2", "4", "-", "0", "1", "-", "0", "1">>,
      <<"2", "0", "2", "4", "-", "0", "3", "-", "0", "5">>,
      <<"2", "0", "2", "4", "-", "0", "2", "-", "2", "9">>,
      <<"2", "0", "2", "3", "-", "0", "2", "-", "2", "9">>,
      <<"2", "0", "2", "4", "-", "1", "3", "-", "0", "1">>,
      <<"2", "0", "2", "4", "-", "0", "4", "-", "3", "1">>,
      <<"0", "0", "0", "0", "-", "0", "1", "-", "0", "1">>,
      <<"2", "0", "2", "4", "/", "0", "1", "/", "0", "1">>,
      <<"2", "4", "-", "0", "1", "-", "0", "1">> }

TimeParts ==
    { <<"1", "2", ":", "3", "0", ":", "0", "0">>,
      <<"0", "8", ":", "1", "5", ":", "0", "0">>,
      <<"0", "0", ":", "0", "5", ":", "0", "0">>,
      <<"2", "3", ":", "5", "9", ":", "5", "9">>,
      <<"2", "3", ":", "5", "9", ":", "6", "0">>,
      <<"1", "2", ":", "6", "0", ":", "0", "0">>,
      <<"2", "5", ":", "0", "0", ":", "0", "0">>,
      <<"1", "2", ":", "3", "0">>,
      <<"7", ":", "0", "5", ":", "0", "0">>,
      <<"1", "2", ":", "3", "0", ":", "0", "0", ".", "1", "2", "3", "4", "5", "6">> }

ZoneParts ==
    { <<>>,
      <<"Z">>,
      <<"+", "0", "5", ":", "3", "0">>,
      <<"-", "0", "8", ":", "0", "0">>,
      <<"+", "2", "4", ":", "0", "0">>,
      <<"Z", "Z">>,
      <<"+", "5">> }

Separators == {"T", " ", "x"}

OtherStrings == {<<>>, <<"Z">>, S_Junk, S_Nebula, <<" ">> \o S_Stamp}

TimestampStrings ==
    DateParts
      \cup {d \o <<sep>> \o tp \o z :
              d \in DateParts, sep \in Separators, tp \in TimeParts, z \in ZoneParts}
      \cup OtherStrings

TimestampInputs == {None} \cup {JStr(s) : s \in TimestampStrings}

NoCall == [fn |-> "", exc |-> "", val |-> None]

----------------------------------------------------------------------------
(* Dictionaries, membership and subscripts as main() uses them.            *)

Absent == [t |-> "absent"]

\* the dict with the fields of f that are not Absent
MkObj(f) == JObj([k \in {j \in DOMAIN f : f[j] # Absent} |-> f[k]])

KeyChars(k) == IF k = "apod" THEN S_apod ELSE S_weather

Contains(s, sub) ==
    \E k \in 1..(Len(s) - Len(sub) + 1) : SubSeq(s, k, k + Len(sub) - 1) = sub

\* `k in v`: a key of a dict, an element of a list, a substring of a str;
\* a TypeError for a value that is no container
PyIn(k, v) ==
    CASE v.t = "obj" -> IF k \in DOMAIN v.v THEN "True" ELSE "False"
      [] v.t = "list" -> IF \E j \in DOMAIN v.v : v.v[j] = JStr(KeyChars(k))
                         THEN "True" ELSE "False"
      [] v.t = "str" -> IF Contains(v.v, KeyChars(k)) THEN "True" ELSE "False"
      [] OTHER -> "TypeError"

\* d.get(k) and d.get(k, default)
GetDefault(d, k, default) == IF k \in DOMAIN d.v THEN d.v[k] ELSE default
Get(d, k) == GetDefault(d, k, None)

\* str(v) inside an f-string
PyStr(v) ==
    CASE v.t = "num" -> IntToChars(v.v)
      [] v.t = "float" -> IntToChars(v.i) \o <<".", DigitChar(v.f)>>
      [] v.t = "str" -> v.v
      [] v.t = "null" -> <<"N", "o", "n", "e">>

----------------------------------------------------------------------------
(* The page: the elements a pass has written, in order.                    *)

El(kind) == [kind |-> kind]
Cause(c, status) == [cause |-> c, status |-> status]
Error(msg, detail) == [kind |-> "error", msg |-> msg, detail |-> detail]
Exception(type) == [kind |-> "exception", type |-> type]
Warning(msg) == [kind |-> "warning", msg |-> msg]
Json(v) == [kind |-> "json", body |-> v]
Subheader(v) == [kind |-> "subheader", body |-> v]
Markdown(v) == [kind |-> "markdown", body |-> v]
Caption(v) == [kind |-> "caption", body |-> v]
Video(url) == [kind |-> "video", url |-> url]
Image(url, caption) == [kind |-> "image", url |-> url, caption |-> caption]
Metric(label, value) == [kind |-> "metric", label |-> label, value |-> value]

ConfigError == Error("CONFIGURATION ERROR", Cause("", 0))
SchemaError == Error("Data structure invalid", Cause("", 0))

----------------------------------------------------------------------------
(* What the webhook can answer.                                            *)

NotJson == [t |-> "notjson"]

Numbers == {JNum(n) : n \in -1..MaxNum}

MediaTypes == {Absent, JStr(S_image), JStr(S_video), JStr(S_gif)}
MediaUrls == {Absent, JStr(<<>>), JStr(S_MediaUrl)}

ApodObjects ==
    {MkObj([title |-> JStr(S_Nebula), date |-> JStr(S_Stamp),
            explanation |-> JStr(S_Dust), media_type |-> mt, url |-> u]) :
        mt \in MediaTypes, u \in MediaUrls}
      \cup
    {MkObj([title |-> ti, date |-> d, explanation |-> Absent,
            media_type |-> JStr(S_image), url |-> JStr(S_MediaUrl)]) :
        ti \in {Absent, None}, d \in {Absent, JStr(S_Junk), JNum(MaxNum)}}
      \cup {JObj(<<>>)}

ApodSections == ApodObjects \cup {None, JStr(S_Nebula)}

WeatherObjects ==
    {MkObj([temperature |-> te, windspeed |-> w, time |-> JStr(S_Stamp)]) :
        te \in {Absent, None, JFloat(21, 5), JFloat(0, 0)} \cup Numbers,
        w \in {Absent, None, JNum(0), JNum(MaxNum)}}
      \cup
    {MkObj([temperature |-> JNum(0), windspeed |-> Absent, time |-> ti]) :
        ti \in {Absent, None, JStr(<<>>), JStr(S_Junk), JNum(MaxNum)}}
      \cup {JObj(<<>>)}

WeatherSections == WeatherObjects \cup {None, JList(<<>>)}

\* bodies with both sections
Payloads ==
    {JObj([apod |-> a, weather |-> w]) : a \in ApodSections, w \in WeatherSections}

\* bodies that lack a section or are no JSON object, and a body that is no JSON
OtherBodies ==
    { NotJson, None, JNum(0), JNum(MaxNum), JStr(<<>>), JStr(S_ApodWeather),
      JList(<<>>), JList(<<JStr(S_apod), JStr(S_weather)>>), JObj(<<>>) }
      \cup {JObj([apod |-> a]) : a \in {None, JObj(<<>>)}}
      \cup {JObj([weather |-> w]) : w \in {None, JObj(<<>>)}}

Bodies == Payloads \cup OtherBodies

Http(status, body) == [kind |-> "http", status |-> status, body |-> body]
Failure(kind) == [kind |-> kind, status |-> 0, body |-> None]
NoResponse == Failure("none")

Failures == {Failure("ConnectionError"), Failure("Timeout")}

\* statuses requests hands back (a redirect it follows never shows)
PassingStatuses == {200, 300}
ErrorStatuses == {404, 500}

Responses ==
    Failures
      \cup {Http(st, b) : st \in PassingStatuses, b \in Bodies}
      \cup {Http(204, NotJson)}
      \cup {Http(st, b) : st \in ErrorStatuses, b \in {NotJson, JObj(<<>>)}}

SamplePayload ==
    JObj([apod |-> MkObj([title |-> JStr(S_Nebula), date |-> JStr(S_Stamp),
                          explanation |-> JStr(S_Dust),
                          media_type |-> JStr(S_image), url |-> JStr(S_MediaUrl)]),
          weather |-> MkObj([temperature |-> JNum(0), windspeed |-> None,
                             time |-> JStr(S_Stamp)])])

\* the answers of the specification that compares consecutive passes
FewResponses ==
    Failures
      \cup {Http(st, b) : st \in {200, 404},
                          b \in {NotJson, JObj(<<>>), SamplePayload,
                                 JObj([apod |-> None, weather |-> JObj(<<>>)])}}

Urls == {None, JStr(<<>>), JStr(S_MediaUrl)}

NoPass == [pc |-> "", WEBHOOK_URL |-> None, checkbox |-> FALSE,
           response |-> NoResponse, ui |-> <<>>, requests |-> 0]

----------------------------------------------------------------------------
(* main() and fetch_data().                                                *)

\* app.py:111, `if not WEBHOOK_URL`
ConfigMissingNoneOnly(url) == url = None
ConfigMissing(url) == ~Truthy(url)

\* response.raise_for_status(): raises for 4xx and 5xx
RaisesForStatusServerOnly(status) == status \in 500..599
RaisesForStatus(status) == status \in 400..599

\* st.stop() at the end of both handlers of fetch_data (lines 99 and 102)
AfterFetchErrorReturn == "debug"
AfterFetchError == "stopped"

\* app.py:121, `if st.checkbox(...)`
ShowRawValidOnly(cb, d) ==
    cb /\ d.t = "obj" /\ {"apod", "weather"} \subseteq DOMAIN d.v
ShowRaw(cb, d) == cb

\* app.py:129, `not data or 'apod' not in data or 'weather' not in data`,
\* evaluated left to right: "True", "False", or the TypeError of `in`
StructureInvalid(d) ==
    IF ~Truthy(d) THEN "True"
    ELSE IF PyIn("apod", d) # "True"
         THEN (IF PyIn("apod", d) = "False" THEN "True" ELSE "TypeError")
    ELSE IF PyIn("weather", d) # "True"
         THEN (IF PyIn("weather", d) = "False" THEN "True" ELSE "TypeError")
    ELSE "False"

\* app.py:146-159, the element shown for the media of apod
MediaDisplayAlwaysImage(apod) ==
    LET media_type == Get(apod, "media_type")
        media_url == Get(apod, "url")
    IN  IF Truthy(media_url)
        THEN IF media_type.t = "str" /\ media_type.v = S_video
             THEN Video(media_url)
             ELSE Image(media_url, Get(apod, "title"))
        ELSE Warning("APOD media URL not available.")
MediaDisplay(apod) ==
    LET media_type == Get(apod, "media_type")
        media_url == Get(apod, "url")
    IN  IF Truthy(media_url)
        THEN IF media_type.t = "str" /\ media_type.v = S_video
             THEN Video(media_url)
             ELSE IF media_type.t = "str" /\ media_type.v = S_image
             THEN Image(media_url, Get(apod, "title"))
             ELSE Warning("Unknown media type.")
        ELSE Warning("APOD media URL not available.")

\* app.py:178 and 184, f"{value}{suffix}" if value is not None else '--'
NumericDisplayTruthy(value, suffix) ==
    IF Truthy(value) THEN PyStr(value) \o suffix ELSE S_Dashes
NumericDisplay(value, suffix) ==
    IF value # None THEN PyStr(value) \o suffix ELSE S_Dashes

\* app.py:136-163: the elements of the APOD section, and the exception that
\* ended it, if any (apod.get of a value that is no dict, format_date)
ApodSection(apod) ==
    LET head == <<El("apod_header"), El("columns")>>
    IN  IF apod.t # "obj" THEN [els |-> head, exc |-> "AttributeError"]
        ELSE
        LET media == <<Subheader(GetDefault(apod, "title", JStr(S_TitleMissing))),
                       MediaDisplay(apod)>>
            date == format_date(Get(apod, "date"))
        IN  IF date.exc # "" THEN [els |-> head \o media, exc |-> date.exc]
            ELSE [els |-> head \o media \o
                          <<Caption(date.val),
                            Markdown(GetDefault(apod, "explanation",
                                                JStr(S_NoExplanation)))>>,
                  exc |-> ""]

\* app.py:166-189: the elements of the weather section, likewise
WeatherSection(weather) ==
    LET head == <<El("weather_header"), El("columns")>>
    IN  IF weather.t # "obj" THEN [els |-> head, exc |-> "AttributeError"]
        ELSE
        LET metrics ==
              <<Metric("Temperature",
                       JStr(NumericDisplay(Get(weather, "temperature"), S_DegC))),
                Metric("Wind Speed",
                       JStr(NumericDisplay(Get(weather, "windspeed"), S_KmH)))>>
            local_time == format_time(Get(weather, "time"))
        IN  IF local_time.exc # ""
            THEN [els |-> head \o metrics, exc |-> local_time.exc]
            ELSE [els |-> head \o metrics \o
                          <<Metric("Local Time", local_time.val)>>,
                  exc |-> ""]

\* An uncaught exception ends the script; Streamlit shows it on the page.
Crash(els, exc) ==
    /\ ui' = ui \o els \o <<Exception(exc)>>
    /\ pc' = "crashed"

Init ==
    /\ pc = "idle"
    /\ WEBHOOK_URL = None
    /\ checkbox = FALSE
    /\ response = NoResponse
    /\ data = None
    /\ ui = <<>>
    /\ requests = 0
    /\ prev = NoPass
    /\ iso_time = None
    /\ formatted = NoCall
    /\ json_error_is_request_exception \in BOOLEAN

\* The script starts: lines 8-66 read the environment and style the page.
StartPass ==
    /\ pc = "idle"
    /\ \E url \in Urls, cb \in BOOLEAN :
          /\ WEBHOOK_URL' = url
          /\ checkbox' = cb
    /\ ui' = <<El("style")>>
    /\ pc' = "main"
    /\ UNCHANGED <<response, data, requests, prev, iso_time, formatted,
                   json_error_is_request_exception>>

\* app.py:108-114
ConfigCheck ==
    /\ pc = "main"
    /\ IF ConfigMissing(WEBHOOK_URL)
       THEN /\ ui' = ui \o <<El("title"), ConfigError, El("config_hint")>>
            /\ pc' = "done"
       ELSE /\ ui' = ui \o <<El("title")>>
            /\ pc' = "fetch"
    /\ UNCHANGED <<WEBHOOK_URL, checkbox, response, data, requests, prev,
                   iso_time, formatted,
                   json_error_is_request_exception>>

\* The handler of fetch_data that catches the exception of response.json():
\* line 97 when it is a RequestException, line 100 otherwise.
JsonErrorMessage ==
    IF json_error_is_request_exception THEN "Connection Error"
    ELSE "unexpected error"

\* app.py:117 and 89-102: one GET, then the status, then the body.
fetch_data_retrying(answers) ==
    /\ pc = "fetch"
    /\ \E r \in answers :
          /\ response' = r
          /\ IF r.kind # "http"
             THEN /\ requests' = requests + 2
                  /\ ui' = ui \o <<El("info"),
                                   Error("Connection Error", Cause(r.kind, 0))>>
                  /\ pc' = AfterFetchError
                  /\ data' = data
             ELSE /\ requests' = requests + 1
                  /\ IF RaisesForStatus(r.status)
                     THEN /\ ui' = ui \o <<El("info"),
                                 Error("Connection Error",
                                       Cause("HTTPError", r.status))>>
                          /\ pc' = AfterFetchError
                          /\ data' = data
                     ELSE IF r.body = NotJson
                     THEN /\ ui' = ui \o <<El("info"), El("empty"),
                                     Error(JsonErrorMessage,
                                           Cause("JSONDecodeError", 0))>>
                          /\ pc' = AfterFetchError
                          /\ data' = data
                     ELSE /\ ui' = ui \o <<El("info"), El("empty")>>
                          /\ pc' = "debug"
                          /\ data' = r.body
    /\ UNCHANGED <<WEBHOOK_URL, checkbox, prev, iso_time, formatted,
                   json_error_is_request_exception>>
fetch_data(answers) ==
    /\ pc = "fetch"
    /\ \E r \in answers :
          /\ response' = r
          /\ requests' = requests + 1
          /\ IF r.kind # "http"
             THEN /\ ui' = ui \o <<El("info"),
                                   Error("Connection Error", Cause(r.kind, 0))>>
                  /\ pc' = AfterFetchError
                  /\ data' = data
             ELSE IF RaisesForStatus(r.status)
             THEN /\ ui' = ui \o <<El("info"),
                                   Error("Connection Error",
                                         Cause("HTTPError", r.status))>>
                  /\ pc' = AfterFetchError
                  /\ data' = data
             ELSE IF r.body = NotJson
             THEN /\ ui' = ui \o <<El("info"), El("empty"),
                                Error(JsonErrorMessage,
                                      Cause("JSONDecodeError", 0))>>
                  /\ pc' = AfterFetchError
                  /\ data' = data
             ELSE /\ ui' = ui \o <<El("info"), El("empty")>>
                  /\ pc' = "debug"
                  /\ data' = r.body
    /\ UNCHANGED <<WEBHOOK_URL, checkbox, prev, iso_time, formatted,
                   json_error_is_request_exception>>

\* app.py:119-125: the checkbox, and the raw data when it is ticked
DebugAid ==
    /\ pc = "debug"
    /\ ui' = ui \o <<El("checkbox")>> \o
               (IF ShowRaw(checkbox, data)
                THEN <<El("raw_subheader"), Json(data), El("raw_warning")>>
                ELSE <<>>)
    /\ pc' = "validate"
    /\ UNCHANGED <<WEBHOOK_URL, checkbox, response, data, requests, prev,
                   iso_time, formatted,
                   json_error_is_request_exception>>

\* app.py:128-134: the check of the structure, then data['apod'] and
\* data['weather'], which raise for a list or a str
Validate ==
    /\ pc = "validate"
    /\ LET invalid == StructureInvalid(data)
       IN  IF invalid = "True"
           THEN /\ ui' = ui \o <<SchemaError>>
                /\ pc' = "done"
           ELSE IF invalid = "TypeError" \/ data.t # "obj"
           THEN Crash(<<>>, "TypeError")
           ELSE /\ ui' = ui
                /\ pc' = "apod"
    /\ UNCHANGED <<WEBHOOK_URL, checkbox, response, data, requests, prev,
                   iso_time, formatted,
                   json_error_is_request_exception>>

\* app.py:136-163
RenderApod ==
    /\ pc = "apod"
    /\ LET section == ApodSection(data.v["apod"])
       IN  IF section.exc # ""
           THEN Crash(section.els, section.exc)
           ELSE /\ ui' = ui \o section.els
                /\ pc' = "weather"
    /\ UNCHANGED <<WEBHOOK_URL, checkbox, response, data, requests, prev,
                   iso_time, formatted,
                   json_error_is_request_exception>>

\* app.py:166-189
RenderWeather ==
    /\ pc = "weather"
    /\ LET section == WeatherSection(data.v["weather"])
       IN  IF section.exc # ""
           THEN Crash(section.els, section.exc)
           ELSE /\ ui' = ui \o section.els
                /\ pc' = "done"
    /\ UNCHANGED <<WEBHOOK_URL, checkbox, response, data, requests, prev,
                   iso_time, formatted,
                   json_error_is_request_exception>>

PassOver == pc \in {"done", "stopped", "crashed"}

\* The next interaction runs the script again from the top: nothing of the
\* pass is kept.  With `record`, prev remembers the pass that ended.
Rerun(record) ==
    /\ PassOver
    /\ prev' = IF record
               THEN [pc |-> pc, WEBHOOK_URL |-> WEBHOOK_URL,
                     checkbox |-> checkbox, response |-> response,
                     ui |-> ui, requests |-> requests]
               ELSE prev
    /\ pc' = "idle"
    /\ WEBHOOK_URL' = None
    /\ checkbox' = FALSE
    /\ response' = NoResponse
    /\ data' = None
    /\ ui' = <<>>
    /\ requests' = 0
    /\ UNCHANGED <<iso_time, formatted,
                   json_error_is_request_exception>>

Next ==
    \/ StartPass
    \/ ConfigCheck
    \/ fetch_data(Responses)
    \/ DebugAid
    \/ Validate
    \/ RenderApod
    \/ RenderWeather
    \/ Rerun(FALSE)

Spec == Init /\ [][Next]_vars

\* Consecutive passes over a few answers, the pass before remembered.
NextPasses ==
    \/ StartPass
    \/ ConfigCheck
    \/ fetch_data(FewResponses)
    \/ DebugAid
    \/ Validate
    \/ RenderApod
    \/ RenderWeather
    \/ Rerun(TRUE)

SpecPasses == Init /\ [][NextPasses]_vars

----------------------------------------------------------------------------
(* The formatters alone, applied to every timestamp of TimestampInputs.    *)

InitFormat ==
    /\ pc = "format"
    /\ iso_time \in TimestampInputs
    /\ formatted = NoCall
    /\ WEBHOOK_URL = None
    /\ checkbox = FALSE
    /\ response = NoResponse
    /\ data = None
    /\ ui = <<>>
    /\ requests = 0
    /\ prev = NoPass
    /\ json_error_is_request_exception \in BOOLEAN

Call(fn, result) ==
    /\ pc = "format"
    /\ formatted' = [fn |-> fn, exc |-> result.exc, val |-> result.val]
    /\ pc' = "formatted"
    /\ UNCHANGED <<WEBHOOK_URL, checkbox, response, data, ui, requests, prev,
                   iso_time,
                   json_error_is_request_exception>>

CallFormatTime == Call("format_time", format_time(iso_time))
CallFormatDate == Call("format_date", format_date(iso_time))

NextFormat == CallFormatTime \/ CallFormatDate

SpecFormat == InitFormat /\ [][NextFormat]_vars

----------------------------------------------------------------------------
(* Reading the page and the pass.                                          *)

Has(kind) == \E k \in DOMAIN ui : ui[k].kind = kind
HasEl(e) == \E k \in DOMAIN ui : ui[k] = e
Count(kinds) == Cardinality({k \in DOMAIN ui : ui[k].kind \in kinds})
Before(kinds1, kinds2) ==
    \A j, k \in DOMAIN ui :
        ui[j].kind \in kinds1 /\ ui[k].kind \in kinds2 => j < k
Last == ui[Len(ui)]

UrlAbsentOrEmpty == WEBHOOK_URL = None \/ WEBHOOK_URL = JStr(<<>>)

\* both required keys at the top level of a JSON object
HasBoth(d) == d.t = "obj" /\ {"apod", "weather"} \subseteq DOMAIN d.v

\* fetch_data has returned to main(): main's next statement draws the checkbox
Returned == pc \in {"debug", "validate", "apod", "weather"} \/ Has("checkbox")

\* line 129 has been evaluated
Validated == pc \in {"apod", "weather"} \/ (PassOver /\ Has("checkbox"))

\* the pass ended on a reported error
FatalPass == PassOver /\ Has("error")

SectionKinds == {"apod_header", "weather_header", "columns", "subheader",
                 "markdown", "caption", "image", "video", "metric"}
RawKinds == {"raw_subheader", "json", "raw_warning"}

----------------------------------------------------------------------------
(* C1: in a pass whose endpoint configuration is absent or empty, no       *)
(* request is issued and fetch_data is never entered; the pass ends with   *)
(* the configuration error as its only error.                              *)
C1_ConfigErrorBeforeAnyRequest ==
    UrlAbsentOrEmpty =>
        /\ requests = 0
        /\ response = NoResponse
        /\ ~Has("info")
        /\ pc \in {"idle", "main", "done"}
        /\ pc = "done" =>
              /\ HasEl(ConfigError)
              /\ Count({"error", "exception"}) = 1
              /\ Count(SectionKinds \cup RawKinds) = 0

C1_Witness ==
    pc = "done" /\ WEBHOOK_URL = JStr(<<>>) /\ HasEl(ConfigError)

(* C2, as stated: a pass that ends on a fatal error shows exactly one      *)
(* error and neither a section nor any data of the fetched payload,        *)
(* whatever the checkbox.                                                  *)
C2_Original ==
    FatalPass =>
        /\ Count({"error", "exception"}) = 1
        /\ Count(SectionKinds \cup RawKinds) = 0

(* C2, amended: a pass that ends on a fatal error shows exactly one error, *)
(* which ends the page (only the configuration hint follows its error),    *)
(* and no APOD or weather section; the raw payload of the debug aid is on  *)
(* the page with the error exactly when the error is the schema error and  *)
(* the checkbox is ticked, and it is the body fetched in this pass.        *)
C2_FatalErrorShowsNoSection ==
    FatalPass =>
        /\ Count({"error", "exception"}) = 1
        /\ Count(SectionKinds) = 0
        /\ Last.kind = "error" \/ (Last = El("config_hint") /\ HasEl(ConfigError))
        /\ Has("json") <=> (checkbox /\ HasEl(SchemaError))
        /\ Has("json") => HasEl(Json(response.body))

C2_Witness ==
    FatalPass /\ HasEl(SchemaError) /\ Has("json") /\ data = JObj(<<>>)

(* C3: once the body is parsed, the schema error is reported exactly when  *)
(* 'apod' or 'weather' is absent at the top level, a payload reaches the   *)
(* sections exactly when both keys are present, and a body that is not     *)
(* JSON ends the pass on an error of the fetch.                            *)
C3_SchemaErrorIffKeyAbsent ==
    /\ Validated =>
          /\ HasEl(SchemaError) <=> ~HasBoth(data)
          /\ (pc \in {"apod", "weather"} \/ Has("apod_header")) <=> HasBoth(data)
    /\ (PassOver /\ response.body = NotJson /\ response.status \in 200..299) =>
          /\ pc = "stopped"
          /\ Last = Error(JsonErrorMessage, Cause("JSONDecodeError", 0))

(* C4, as stated: fetch_data returns only for a 2xx status; every          *)
(* connection failure, timeout and non-2xx status ends the pass on a fetch *)
(* error.                                                                  *)
C4_Original ==
    /\ Returned => (response.kind = "http" /\ response.status \in 200..299)
    /\ (response # NoResponse /\ response.status \notin 200..299) =>
          (pc = "stopped" /\ Last.kind = "error")

(* C4, amended: fetch_data returns only when the status is not a 4xx or    *)
(* 5xx and the body is JSON, and what it returns is that body; every       *)
(* connection failure, timeout, 4xx and 5xx status ends the pass at once   *)
(* on one "Connection Error" that carries the cause or the status code,    *)
(* and nothing is returned.                                                *)
C4_FetchReturnsOnlyBelow400 ==
    /\ Returned =>
          /\ response.kind = "http"
          /\ response.status \notin 400..599
          /\ response.body # NotJson
          /\ data = response.body
    /\ (response # NoResponse
          /\ (response.kind # "http" \/ response.status \in 400..599)) =>
          /\ pc = "stopped"
          /\ data = None
          /\ ~Returned
          /\ Count({"error", "exception"}) = 1
          /\ Last = Error("Connection Error",
                          IF response.kind = "http"
                          THEN Cause("HTTPError", response.status)
                          ELSE Cause(response.kind, 0))

C4_Witness ==
    /\ pc = "stopped"
    /\ response.kind = "http" /\ response.status = 404
    /\ Last = Error("Connection Error", Cause("HTTPError", 404))

(* C5: a pass with a configured endpoint issues exactly one GET request,   *)
(* also when the request fails; what a pass shows comes from the answer of *)
(* that pass; and two consecutive passes with the same configuration and   *)
(* the same answer end alike and show the same page (the raw-data panel of *)
(* the debug aid apart, which follows the checkbox of each pass).          *)
Dashboard(page) == SelectSeq(page, LAMBDA e : e.kind \notin RawKinds)

C6_SectionsNeverAbort ==
    (Returned /\ HasBoth(data)) =>
        /\ pc # "crashed"
        /\ Count({"error", "exception"}) = 0
        /\ PassOver => (Has("apod_header") /\ Has("weather_header")
                          /\ Count({"metric"}) = 3)

(* C7, as stated: the raw data is shown only once the schema check has     *)
(* passed, so a payload without 'apod' or 'weather' is never shown.        *)
C7_Original == Has("json") => HasBoth(data)

(* C7, amended: the debug aid shows the raw payload after the fetch has    *)
(* returned and before the schema check: with the checkbox ticked, the     *)
(* body is shown whether or not it has 'apod' and 'weather'.  The stages   *)
(* run in the order Resolve, Fetch, debug aid, Validate, Normalize, none   *)
(* before its predecessor has succeeded.                                   *)
C7_RawShownBeforeValidation ==
    /\ Has("json") => (checkbox /\ HasEl(Json(response.body)))
    /\ (checkbox /\ (pc = "validate" \/ Validated)) => Has("json")
    /\ Has("info") => (Has("title") /\ ~UrlAbsentOrEmpty)
    /\ Has("checkbox") =>
          /\ Has("empty")
          /\ response.kind = "http" /\ response.body # NotJson
          /\ data = response.body
    /\ HasEl(SchemaError) => Has("checkbox")
    /\ Has("apod_header") =>
          (Has("checkbox") /\ HasBoth(data) /\ ~HasEl(SchemaError))
    /\ Has("weather_header") => (Has("caption") /\ Has("markdown"))
    /\ Before({"title"}, {"info"})
    /\ Before({"info", "empty"}, {"checkbox"})
    /\ Before({"checkbox"}, {"json"})
    /\ Before({"checkbox", "json", "raw_warning"},
              {"error", "exception", "apod_header"})
    /\ Before({"apod_header", "subheader", "caption", "markdown"},
              {"weather_header", "metric"})

C7_Witness ==
    pc = "done" /\ HasEl(SchemaError) /\ HasEl(Json(JObj([apod |-> None])))

----------------------------------------------------------------------------
(* Timestamps, read off the characters of the string itself.               *)

At(s, k, c) == Len(s) >= k /\ s[k] = c
DigitsAt(s, a, b) == Len(s) >= b /\ AllDigits(s, a, b)
NumAt(s, a, b) == ToNat(SubSeq(s, a, b))

\* a calendar date YYYY-MM-DD at the head of s
DateAtHead(s, minYear) ==
    /\ DigitsAt(s, 1, 4) /\ At(s, 5, "-")
    /\ DigitsAt(s, 6, 7) /\ At(s, 8, "-")
    /\ DigitsAt(s, 9, 10)
    /\ NumAt(s, 1, 4) >= minYear
    /\ NumAt(s, 6, 7) \in 1..12
    /\ NumAt(s, 9, 10) \in 1..DaysInMonth(NumAt(s, 1, 4), NumAt(s, 6, 7))

\* HH:MM:SS after the date and one of the separators, with seconds up to
\* maxSecond
ClockAfterDate(s, separators, maxSecond) ==
    /\ Len(s) >= 11 /\ s[11] \in separators
    /\ DigitsAt(s, 12, 13) /\ At(s, 14, ":")
    /\ DigitsAt(s, 15, 16) /\ At(s, 17, ":")
    /\ DigitsAt(s, 18, 19)
    /\ NumAt(s, 12, 13) <= 23
    /\ NumAt(s, 15, 16) <= 59
    /\ NumAt(s, 18, 19) <= maxSecond

\* nothing, Z, or +HH:MM / -HH:MM from position k on
ZoneFrom(s, k) ==
    \/ Len(s) = k - 1
    \/ Len(s) = k /\ s[k] = "Z"
    \/ /\ Len(s) = k + 5
       /\ s[k] \in {"+", "-"}
       /\ DigitsAt(s, k + 1, k + 2) /\ s[k + 3] = ":"
       /\ DigitsAt(s, k + 4, k + 5)
       /\ NumAt(s, k + 1, k + 2) <= 23
       /\ NumAt(s, k + 4, k + 5) <= 59

\* Every string that can pass for an ISO-8601 timestamp: a calendar date
\* (year 0000 included), alone or followed by T (or the space RFC 3339
\* allows in its place) and a time of day HH:MM or HH:MM:SS (a leap second
\* included) with an optional fraction, then an optional zone.
IsISO8601(s) ==
    /\ DateAtHead(s, 0)
    /\ \/ Len(s) = 10
       \/ ClockAfterDate(s, {"T", " "}, 60) /\ ZoneFrom(s, 20)
       \/ /\ ClockAfterDate(s, {"T", " "}, 60) /\ At(s, 20, ".")
          /\ DigitsAt(s, 21, 26) /\ ZoneFrom(s, 27)
       \/ /\ Len(s) >= 11 /\ s[11] \in {"T", " "}
          /\ DigitsAt(s, 12, 13) /\ At(s, 14, ":")
          /\ DigitsAt(s, 15, 16)
          /\ NumAt(s, 12, 13) <= 23 /\ NumAt(s, 15, 16) <= 59
          /\ ZoneFrom(s, 17)

\* YYYY-MM-DDTHH:MM:SS[Z|+HH:MM|-HH:MM] with the year from 1, the hour to
\* 23 and the second to 59
IsPlainTimestamp(s) ==
    DateAtHead(s, 1) /\ ClockAfterDate(s, {"T"}, 59) /\ ZoneFrom(s, 20)

Placeholder(fn) == IF fn = "format_time" THEN S_TimeNA ELSE S_DateNA

\* the clock of a plain timestamp in 12-hour form, and its long date
ClockOf(s) ==
    LET h == NumAt(s, 12, 13)
    IN  (IF h \in {0, 12} THEN <<"1", "2">>
         ELSE IF h < 12 THEN SubSeq(s, 12, 13)
         ELSE Pad2(h - 12))
          \o <<":">> \o SubSeq(s, 15, 16)
          \o (IF h < 12 THEN <<" ", "A", "M">> ELSE <<" ", "P", "M">>)

LongDateOf(s) ==
    MonthName(NumAt(s, 6, 7)) \o <<" ">> \o SubSeq(s, 9, 10) \o <<",", " ">>
      \o NatToChars(NumAt(s, 1, 4))

FormatterDone == pc = "formatted"

(* C8, as stated: None gives "N/A"; every non-empty string that is no      *)
(* ISO-8601 timestamp gives "Time N/A" / "Date N/A"; every ISO-8601        *)
(* timestamp gives a formatted string and never a placeholder.  Where a    *)
(* string is ISO-8601 only by a generous reading, neither is asked of it.  *)
C8_Original ==
    FormatterDone =>
        /\ formatted.exc = ""
        /\ iso_time = None => formatted.val = JStr(S_NA)
        /\ (iso_time.t = "str" /\ iso_time.v # <<>> /\ ~IsISO8601(iso_time.v))
              => formatted.val = JStr(Placeholder(formatted.fn))
        /\ (iso_time.t = "str" /\ IsPlainTimestamp(iso_time.v))
              => formatted.val \notin {JStr(S_NA), JStr(S_TimeNA), JStr(S_DateNA)}

(* C8, amended: None and the empty string give "N/A".  Every timestamp     *)
(* YYYY-MM-DDTHH:MM:SS followed by nothing, Z or an offset +HH:MM / -HH:MM *)
(* (year from 0001, hour to 23, second to 59) gives its 12-hour clock      *)
(* (format_time) or its long date (format_date).  Every non-empty string   *)
(* that does not begin with four digits gives "Time N/A" / "Date N/A".     *)
(* Every other non-empty string gives either that placeholder or a         *)
(* formatted string, never "N/A", and no call raises.                      *)
C8_FormatterClasses ==
    FormatterDone =>
        /\ formatted.exc = ""
        /\ formatted.val.t = "str"
        /\ (iso_time = None \/ iso_time = JStr(<<>>)) <=> formatted.val = JStr(S_NA)
        /\ (iso_time.t = "str" /\ IsPlainTimestamp(iso_time.v)) =>
              formatted.val = JStr(IF formatted.fn = "format_time"
                                   THEN ClockOf(iso_time.v)
                                   ELSE LongDateOf(iso_time.v))
        /\ (iso_time.t = "str" /\ iso_time.v # <<>>
              /\ ~DigitsAt(iso_time.v, 1, 4)) =>
              formatted.val = JStr(Placeholder(formatted.fn))
        /\ (iso_time.t = "str" /\ iso_time.v # <<>>
              /\ formatted.val # JStr(Placeholder(formatted.fn))) =>
              /\ DateAtHead(iso_time.v, 1)
              /\ IF formatted.fn = "format_time"
                 THEN /\ Len(formatted.val.v) = 8
                      /\ SubSeq(formatted.val.v, 6, 8) \in
                            {<<" ", "A", "M">>, <<" ", "P", "M">>}
                 ELSE formatted.val.v = LongDateOf(iso_time.v)

C8_Witness ==
    /\ FormatterDone
    /\ iso_time = JStr(S_Stamp)
    /\ formatted.fn = "format_time"
    /\ formatted.val = JStr(<<"0", "8", ":", "1", "5", " ", "A", "M">>)

----------------------------------------------------------------------------
(* The media of the APOD section and the metrics of the weather section.   *)

\* the element that follows the title of the APOD section
MediaElement == ui[(CHOOSE k \in DOMAIN ui : ui[k].kind = "subheader") + 1]
MediaField(k) == Get(data.v["apod"], k)
MediaIs(chars) == MediaField("media_type") = JStr(chars)
MediaUrlPresent ==
    MediaField("url") # None /\ MediaField("url") # JStr(<<>>)

(* C9, as stated: 'image' leads to the image, 'video' to the video, every  *)
(* other media type to a warning, and an unrecognized type never to an     *)
(* image or a video.                                                       *)
C9_Original ==
    Has("subheader") =>
        /\ MediaIs(S_image) => MediaElement.kind = "image"
        /\ MediaIs(S_video) => MediaElement.kind = "video"
        /\ (~MediaIs(S_image) /\ ~MediaIs(S_video)) =>
              (MediaElement.kind = "warning" /\ Count({"image", "video"}) = 0)

(* C9, amended: when the media URL is present and not empty, 'image' leads *)
(* to the image, 'video' to the video and every other media type (absent   *)
(* included) to the warning "Unknown media type."; when the URL is absent  *)
(* or empty the warning "APOD media URL not available." is shown whatever  *)
(* the media type.  The section shows exactly one of the three, and never  *)
(* an image or a video for an unrecognized media type.                     *)
C9_MediaVariantNeedsUrl ==
    Has("subheader") =>
        /\ Count({"image", "video", "warning"}) = 1
        /\ MediaUrlPresent =>
              /\ MediaIs(S_image) =>
                    MediaElement = Image(MediaField("url"), MediaField("title"))
              /\ MediaIs(S_video) => MediaElement = Video(MediaField("url"))
              /\ (~MediaIs(S_image) /\ ~MediaIs(S_video)) =>
                    MediaElement = Warning("Unknown media type.")
        /\ ~MediaUrlPresent =>
              MediaElement = Warning("APOD media URL not available.")
        /\ (~MediaIs(S_image) /\ ~MediaIs(S_video)) =>
              Count({"image", "video"}) = 0

C9_Witness ==
    /\ pc = "done" /\ Has("subheader")
    /\ MediaIs(S_gif) /\ MediaUrlPresent
    /\ HasEl(Warning("Unknown media type."))

\* the value of the metric with this label
MetricValue(label) ==
    (CHOOSE e \in {ui[k] : k \in DOMAIN ui} :
        e.kind = "metric" /\ e.label = label).value
Reading(k) == Get(data.v["weather"], k)
NullOrAbsent(k) ==
    k \notin DOMAIN data.v["weather"].v \/ data.v["weather"].v[k] = None

\* a number as its decimal digits
Decimal(v) ==
    IF v.t = "num"
    THEN (IF v.v < 0 THEN <<"-">> ELSE <<>>)
           \o NatToChars(IF v.v < 0 THEN 0 - v.v ELSE v.v)
    ELSE NatToChars(v.i) \o <<".">> \o NatToChars(v.f)

(* C10: the temperature and the wind speed show "--" exactly when the      *)
(* value is null or absent; every number, 0 included, is shown as the      *)
(* number followed by its unit.                                            *)
C10_ZeroIsNotAbsent ==
    Count({"metric"}) >= 2 =>
        /\ MetricValue("Temperature") = JStr(S_Dashes) <=> NullOrAbsent("temperature")
        /\ MetricValue("Wind Speed") = JStr(S_Dashes) <=> NullOrAbsent("windspeed")
        /\ Reading("temperature").t \in {"num", "float"} =>
              MetricValue("Temperature")
                = JStr(Decimal(Reading("temperature")) \o <<"deg", "C">>)
        /\ Reading("windspeed").t \in {"num", "float"} =>
              MetricValue("Wind Speed")
                = JStr(Decimal(Reading("windspeed")) \o <<" ", "k", "m", "/", "h">>)
        /\ Reading("temperature") = JNum(0) =>
              MetricValue("Temperature") = JStr(<<"0", "deg", "C">>)

C10_Witness ==
    /\ pc = "done" /\ Count({"metric"}) = 3
    /\ Reading("temperature") = JNum(0)
    /\ MetricValue("Temperature") = JStr(<<"0", "deg", "C">>)
    /\ NullOrAbsent("windspeed")
    /\ MetricValue("Wind Speed") = JStr(<<"-", "-">>)

=============================================================================
